---- MODULE Spec2Model ----
(***************************************************************************)
(* Model of tools/backlight.py: a command-line client that reads the       *)
(* "Backlight" property of org.gnome.Mutter.DisplayConfig and calls its    *)
(* SetBacklight method.  Text (command-line tokens, property names,        *)
(* printed lines) is modelled as sequences of one-character strings so     *)
(* that parsing (int(), argparse) and formatting (f-strings) are computed. *)
(***************************************************************************)
EXTENDS Integers, Sequences, FiniteSets, TLC

(* ---------------------------------------------------------------------- *)
(* Text literals                                                          *)
(* ---------------------------------------------------------------------- *)
OPT_STATUS == <<"-", "-", "s", "t", "a", "t", "u", "s">>
OPT_SET == <<"-", "-", "s", "e", "t">>
UsageText == <<"u", "s", "a", "g", "e", ":", " ", "b", "a", "c", "k", "l", "i", "g", "h", "t", ".", "p", "y", " ", "[", "-", "h", "]", " ", "[", "-", "-", "s", "t", "a", "t", "u", "s", "]", " ", "[", "-", "-", "s", "e", "t", " ", "c", "o", "n", "n", "e", "c", "t", "o", "r", " ", "v", "a", "l", "u", "e", "]">>
K_connector == <<"c", "o", "n", "n", "e", "c", "t", "o", "r">>
K_brightness == <<"b", "r", "i", "g", "h", "t", "n", "e", "s", "s">>
K_max == <<"m", "a", "x">>
K_vendor == <<"v", "e", "n", "d", "o", "r">>
SerialPrefix == <<"S", "e", "r", "i", "a", "l", ":", " ">>
ConnectorPrefix == <<"C", "o", "n", "n", "e", "c", "t", "o", "r", " ", "'">>
ConnectorSuffix == <<"'", ":">>
Indent == <<" ", " ">>
Sep == <<":", " ">>
EDP1 == <<"e", "D", "P", "-", "1">>
DP2 == <<"D", "P", "-", "2">>
DP9 == <<"D", "P", "-", "9">>
Digits == <<"0", "1", "2", "3", "4", "5", "6", "7", "8", "9">>

(* ---------------------------------------------------------------------- *)
(* Integer widths of the D-Bus types used at backlight.py:23              *)
(* ---------------------------------------------------------------------- *)
\* Int32 is -2^31 .. 2^31-1.  A UInt32 does not fit TLC's 32-bit integers and
\* is kept as two 16-bit halves, value = hi * Half + lo.
Int32Max == 2147483647
Int32Min == (0 - Int32Max) - 1
Half == 256 * 256
U32(hi, lo) == [hi |-> hi, lo |-> lo]
UInt32Max == U32(Half - 1, Half - 1)

(* ---------------------------------------------------------------------- *)
(* Bounds of the model                                                    *)
(* ---------------------------------------------------------------------- *)
MaxOther == 1

(* ---------------------------------------------------------------------- *)
(* Python's int(str): strip blanks, optional sign, decimal digits with    *)
(* single underscores between digits.                                     *)
(* ---------------------------------------------------------------------- *)
IsDigit(c) == \E i \in 1..10 : Digits[i] = c

DigitVal(c) == (CHOOSE i \in 1..10 : Digits[i] = c) - 1

RECURSIVE LStrip(_)
LStrip(s) == IF s # <<>> /\ s[1] = " " THEN LStrip(Tail(s)) ELSE s

RECURSIVE RStrip(_)
RStrip(s) == IF s # <<>> /\ s[Len(s)] = " " THEN RStrip(SubSeq(s, 1, Len(s) - 1)) ELSE s

Strip(s) == RStrip(LStrip(s))

\* Whether acc * 10 + d (acc * 10 - d for a negative number) is still a
\* signed 32-bit value.  Python's integers are unbounded; the value is kept
\* while it fits 32 bits, and beyond that only the fact that it does not.
Fits32(acc, d, neg) ==
    IF neg THEN acc >= (Int32Min + d + 9) \div 10
    ELSE acc <= (Int32Max - d) \div 10

\* digits of s from position i on, accumulated into acc; prev tells whether
\* the previous character was a digit (an underscore needs one on each side)
RECURSIVE ParseDigits(_, _, _, _, _, _)
ParseDigits(s, i, acc, prev, neg, fits) ==
    IF i > Len(s) THEN [ok |-> prev, fits |-> fits, v |-> acc]
    ELSE IF IsDigit(s[i])
         THEN LET d == DigitVal(s[i])
              IN IF fits /\ Fits32(acc, d, neg)
                 THEN ParseDigits(s, i + 1, IF neg THEN acc * 10 - d ELSE acc * 10 + d, TRUE, neg, TRUE)
                 ELSE ParseDigits(s, i + 1, 0, TRUE, neg, FALSE)
    ELSE IF s[i] = "_" /\ prev THEN ParseDigits(s, i + 1, acc, FALSE, neg, fits)
    ELSE [ok |-> FALSE, fits |-> FALSE, v |-> 0]

PyInt(str) ==
    LET s == Strip(str)
        signed == s # <<>> /\ s[1] \in {"-", "+"}
        body == IF signed THEN Tail(s) ELSE s
    IN ParseDigits(body, 1, 0, FALSE, signed /\ s[1] = "-", TRUE)

\* Int32 as it would be if text that is no integer were taken as 0
Int32_Lenient(value) ==
    LET p == PyInt(value)
    IN IF ~p.ok THEN [err |-> "none", v |-> 0]
       ELSE IF ~p.fits THEN [err |-> "OverflowError", v |-> 0]
       ELSE [err |-> "none", v |-> p.v]

\* dbus.Int32(value): int.__new__ on the argument, then the range check
Int32(value) ==
    LET p == PyInt(value)
    IN IF ~p.ok THEN [err |-> "ValueError", v |-> 0]
       ELSE IF ~p.fits THEN [err |-> "OverflowError", v |-> 0]
       ELSE [err |-> "none", v |-> p.v]

\* dbus.UInt32(serial) of the serial the service sent
UInt32(u) ==
    IF u.hi \in 0..(Half - 1) /\ u.lo \in 0..(Half - 1) THEN [err |-> "none", v |-> u]
    ELSE [err |-> "OverflowError", v |-> U32(0, 0)]

(* ---------------------------------------------------------------------- *)
(* str() of the values an f-string interpolates                           *)
(* ---------------------------------------------------------------------- *)
RECURSIVE Dec(_)
Dec(n) ==
    IF n < 0 THEN <<"-">> \o Dec(0 - n)
    ELSE IF n < 10 THEN <<Digits[n + 1]>>
    ELSE Dec(n \div 10) \o <<Digits[(n % 10) + 1]>>

\* a property value is an integer or a string
IntVal(i) == [t |-> "int", i |-> i, s |-> <<>>]
StrVal(s) == [t |-> "str", i |-> 0, s |-> s]
\* str() of a UInt32: decimal digits, by long division of the two halves
RECURSIVE DecU32(_)
DecU32(u) ==
    LET l == (u.hi % 10) * Half + u.lo
    IN IF u.hi = 0 /\ u.lo < 10 THEN <<Digits[u.lo + 1]>>
       ELSE DecU32(U32(u.hi \div 10, l \div 10)) \o <<Digits[(l % 10) + 1]>>

FormatValue(val) == IF val.t = "int" THEN Dec(val.i) ELSE val.s

(* ---------------------------------------------------------------------- *)
(* Property maps: insertion-ordered sequences of key/value pairs          *)
(* ---------------------------------------------------------------------- *)
Pair(k, v) == [key |-> k, val |-> v]
HasKey(m, k) == \E i \in DOMAIN m : m[i].key = k
Lookup(m, k) == m[CHOOSE i \in DOMAIN m : m[i].key = k].val

(* ---------------------------------------------------------------------- *)
(* do_status: what it prints for a response, and the exception that       *)
(* stopped it                                                             *)
(* ---------------------------------------------------------------------- *)
\* the inner loop as it would be without the test for "connector"
RECURSIVE PrintProps_NoSkip(_)
PrintProps_NoSkip(items) ==
    IF items = <<>> THEN <<>>
    ELSE <<Indent \o Head(items).key \o Sep \o FormatValue(Head(items).val)>>
         \o PrintProps_NoSkip(Tail(items))

RECURSIVE PrintProps(_)
PrintProps(items) ==
    IF items = <<>> THEN <<>>
    ELSE LET p == Head(items)
         IN (IF p.key = K_connector THEN <<>>
             ELSE <<Indent \o p.key \o Sep \o FormatValue(p.val)>>)
            \o PrintProps(Tail(items))

\* the outer loop as it would be if it walked the entries from the last one
RECURSIVE PrintBacklights_Reversed(_)
PrintBacklights_Reversed(backlights) ==
    IF backlights = <<>> THEN [lines |-> <<>>, err |-> "none"]
    ELSE LET backlight == backlights[Len(backlights)]
         IN IF ~HasKey(backlight, K_connector)
            THEN [lines |-> <<>>, err |-> "KeyError"]
            ELSE LET rest == PrintBacklights_Reversed(SubSeq(backlights, 1, Len(backlights) - 1))
                 IN [lines |-> <<ConnectorPrefix \o FormatValue(Lookup(backlight, K_connector)) \o ConnectorSuffix>>
                                \o PrintProps(backlight) \o rest.lines,
                     err |-> rest.err]

RECURSIVE PrintBacklights(_)
PrintBacklights(backlights) ==
    IF backlights = <<>> THEN [lines |-> <<>>, err |-> "none"]
    ELSE LET backlight == Head(backlights)
         IN IF ~HasKey(backlight, K_connector)
            THEN [lines |-> <<>>, err |-> "KeyError"]
            ELSE LET rest == PrintBacklights(Tail(backlights))
                 IN [lines |-> <<ConnectorPrefix \o FormatValue(Lookup(backlight, K_connector)) \o ConnectorSuffix>>
                                \o PrintProps(backlight) \o rest.lines,
                     err |-> rest.err]

\* do_status as it would be if the serial line were printed before the
\* response is taken apart
do_status_SerialFirst(resp) ==
    IF resp.n # 2 THEN [lines |-> <<SerialPrefix \o DecU32(resp.serial)>>, err |-> "ValueError"]
    ELSE LET r == PrintBacklights(resp.backlights)
         IN [lines |-> <<SerialPrefix \o DecU32(resp.serial)>> \o r.lines, err |-> r.err]

do_status(resp) ==
    IF resp.n # 2 THEN [lines |-> <<>>, err |-> "ValueError"]
    ELSE LET r == PrintBacklights(resp.backlights)
         IN [lines |-> <<SerialPrefix \o DecU32(resp.serial)>> \o r.lines, err |-> r.err]

(* ---------------------------------------------------------------------- *)
(* argparse: --status (store_true) and --set (two str arguments)          *)
(* ---------------------------------------------------------------------- *)
AllDigits(s) == \A i \in DOMAIN s : IsDigit(s[i])

\* argparse's negative-number pattern  ^-\d+$|^-\d*\.\d+$
NegativeNumber(tok) ==
    /\ Len(tok) >= 2
    /\ tok[1] = "-"
    /\ LET r == Tail(tok)
       IN \/ AllDigits(r)
          \/ \E k \in 1..(Len(r) - 1) :
                /\ r[k] = "."
                /\ AllDigits(SubSeq(r, 1, k - 1))
                /\ AllDigits(SubSeq(r, k + 1, Len(r)))

\* whether argparse reads a token as an option string rather than an argument
IsOption(tok) ==
    /\ tok # <<>>
    /\ tok[1] = "-"
    /\ \/ tok \in {OPT_STATUS, OPT_SET}
       \/ /\ Len(tok) > 1
          /\ ~NegativeNumber(tok)
          /\ \A i \in DOMAIN tok : tok[i] # " "

NoArgs == [status |-> FALSE, set |-> <<>>, err |-> FALSE]

RECURSIVE ParseFrom(_, _, _)
ParseFrom(av, i, ns) ==
    IF i > Len(av) THEN ns
    ELSE IF av[i] = OPT_STATUS THEN ParseFrom(av, i + 1, [ns EXCEPT !.status = TRUE])
    ELSE IF av[i] = OPT_SET
         THEN IF i + 2 <= Len(av) /\ ~IsOption(av[i + 1]) /\ ~IsOption(av[i + 2])
              THEN ParseFrom(av, i + 3, [ns EXCEPT !.set = <<av[i + 1], av[i + 2]>>])
              ELSE [ns EXCEPT !.err = TRUE]
    ELSE [ns EXCEPT !.err = TRUE]

parse_args(av) == ParseFrom(av, 1, NoArgs)

\* the dispatch as it would be if the status were the default action
Dispatch_DefaultStatus(ns) ==
    IF ns.set # <<>> /\ ~ns.status THEN "do_set" ELSE "do_status"

\* the dispatch as it would be if --set were tested first
Dispatch_SetFirst(ns) ==
    IF ns.set # <<>> THEN "do_set"
    ELSE IF ns.status THEN "do_status"
    ELSE "print_usage"

\* the if / elif / else at the end of the script
Dispatch(ns) ==
    IF ns.status THEN "do_status"
    ELSE IF ns.set # <<>> THEN "do_set"
    ELSE "print_usage"

(* ---------------------------------------------------------------------- *)
(* Command lines and service states the runs start from                   *)
(* ---------------------------------------------------------------------- *)
Connectors == {EDP1, DP9}

Values == {<<"7", "5">>, <<"-", "5">>, <<"+", "3">>, <<" ", "7">>, <<"7", "_", "5">>, <<"0", "0", "7">>,
           <<"a", "b", "c">>, <<"7", "x">>, <<>>, <<"-", "a">>, <<"1", ".", "5">>, <<"2", "0", "0">>,
           <<"2", "1", "4", "7", "4", "8", "3", "6", "4", "7">>,
           <<"2", "1", "4", "7", "4", "8", "3", "6", "4", "8">>,
           <<"-", "2", "1", "4", "7", "4", "8", "3", "6", "4", "8">>,
           <<"-", "2", "1", "4", "7", "4", "8", "3", "6", "4", "9">>}

SetForms == {<<OPT_SET, c, v>> : c \in Connectors, v \in Values}
            \cup {<<OPT_SET, c>> : c \in Connectors} \cup {<<>>}

StatusForms == {<<>>, <<OPT_STATUS>>}

Argvs == {a \o m \o b : a \in StatusForms, m \in SetForms, b \in StatusForms}

Serials == {U32(0, 7), UInt32Max}

BacklightLists ==
    { <<>>,
      << <<Pair(K_connector, StrVal(EDP1)), Pair(K_brightness, IntVal(50)), Pair(K_max, IntVal(100))>> >>,
      << <<Pair(K_brightness, IntVal(50)), Pair(K_connector, StrVal(EDP1)), Pair(K_max, IntVal(100))>>,
         <<Pair(K_connector, StrVal(DP2)), Pair(K_vendor, StrVal(<<"a", "b">>))>> >>,
      << <<Pair(K_connector, StrVal(EDP1)), Pair(K_brightness, IntVal(50))>>,
         <<Pair(K_brightness, IntVal(5))>>,
         <<Pair(K_connector, StrVal(DP2))>> >>,
      << <<Pair(K_brightness, IntVal(5))>> >> }

(* ---------------------------------------------------------------------- *)
(* The display-configuration service                                      *)
(* ---------------------------------------------------------------------- *)
ServiceMin == 0
ServiceMax == 100
OtherValue == 10

SetProp(m, k, v) ==
    IF HasKey(m, k) THEN [i \in DOMAIN m |-> IF m[i].key = k THEN Pair(k, v) ELSE m[i]]
    ELSE Append(m, Pair(k, v))

IsConnector(backlight, c) ==
    HasKey(backlight, K_connector) /\ Lookup(backlight, K_connector) = StrVal(c)

\* the service takes a write when the serial is current, the connector is
\* known and the value is in its range
ServiceAccepts(cur, backlights, s, c, v) ==
    /\ s = cur
    /\ \E i \in DOMAIN backlights : IsConnector(backlights[i], c)
    /\ v >= ServiceMin /\ v <= ServiceMax

ServiceApply(backlights, c, v) ==
    [i \in DOMAIN backlights |->
        IF IsConnector(backlights[i], c) THEN SetProp(backlights[i], K_brightness, IntVal(v))
        ELSE backlights[i]]

NextSerial(s) ==
    IF s.lo < Half - 1 THEN U32(s.hi, s.lo + 1)
    ELSE IF s.hi < Half - 1 THEN U32(s.hi + 1, 0)
    ELSE U32(0, 0)

(* ---------------------------------------------------------------------- *)
(* State                                                                  *)
(* ---------------------------------------------------------------------- *)
VARIABLES
    argv,           \* sys.argv[1:]
    pc,             \* position of the script
    args,           \* the namespace parse_args returned
    resp,           \* what get_backlight returned
    serial,         \* do_set's local
    stdout,         \* lines printed
    stderr,         \* lines argparse wrote on an error
    error,          \* the exception that ended the run, "none" otherwise
    exitCode,       \* exit status of the process
    connects,       \* calls of get_display_config
    ipc,            \* the property reads and method calls sent, in order
    reachable,      \* the session bus and the service answer
    svcSerial,      \* the service's serial
    svcBacklights,  \* the service's backlight state
    others,         \* changes other clients made
    changedBetween, \* another client changed the state after do_set's read and before its write
    otherBacklights \* the backlight state as the last other client left it

vars == <<argv, pc, args, resp, serial, stdout, stderr, error, exitCode, connects, ipc,
          reachable, svcSerial, svcBacklights, others, changedBetween, otherBacklights>>

client == <<args, resp, serial, stdout, stderr, error, exitCode, connects, ipc>>
service == <<reachable, svcSerial, svcBacklights, others, changedBetween, otherBacklights>>

NoResp == [n |-> 0, serial |-> U32(0, 0), backlights |-> <<>>]

Call(op, s, c, v, ok) == [op |-> op, serial |-> s, connector |-> c, value |-> v, ok |-> ok]

Init ==
    /\ argv \in Argvs
    /\ pc = "start"
    /\ args = NoArgs
    /\ resp = NoResp
    /\ serial = U32(0, 0)
    /\ stdout = <<>>
    /\ stderr = <<>>
    /\ error = "none"
    /\ exitCode = 0
    /\ connects = 0
    /\ ipc = <<>>
    /\ reachable \in BOOLEAN
    /\ svcSerial \in Serials
    /\ svcBacklights \in BacklightLists
    /\ others = 0
    /\ changedBetween = FALSE
    /\ otherBacklights = <<>>

(* ---------------------------------------------------------------------- *)
(* The script                                                             *)
(* ---------------------------------------------------------------------- *)
\* an uncaught exception ends the process with status 1
Raise(e) ==
    /\ pc' = "done"
    /\ error' = e
    /\ exitCode' = 1

\* parser.parse_args() rejects the command line: usage and message on
\* stderr (the line of the message is left out), exit status 2
ArgumentError ==
    /\ pc = "start"
    /\ parse_args(argv).err
    /\ pc' = "done"
    /\ error' = "ArgumentError"
    /\ exitCode' = 2
    /\ stderr' = <<UsageText>>
    /\ UNCHANGED <<argv, args, resp, serial, stdout, connects, ipc>>
    /\ UNCHANGED service

MainStatus ==
    /\ pc = "start"
    /\ ~parse_args(argv).err
    /\ Dispatch(parse_args(argv)) = "do_status"
    /\ args' = parse_args(argv)
    /\ pc' = "status_connect"
    /\ UNCHANGED <<argv, resp, serial, stdout, stderr, error, exitCode, connects, ipc>>
    /\ UNCHANGED service

MainSet ==
    /\ pc = "start"
    /\ ~parse_args(argv).err
    /\ Dispatch(parse_args(argv)) = "do_set"
    /\ args' = parse_args(argv)
    /\ pc' = "set_connect"
    /\ UNCHANGED <<argv, resp, serial, stdout, stderr, error, exitCode, connects, ipc>>
    /\ UNCHANGED service

MainUsage ==
    /\ pc = "start"
    /\ ~parse_args(argv).err
    /\ Dispatch(parse_args(argv)) = "print_usage"
    /\ args' = parse_args(argv)
    /\ stdout' = <<UsageText>>
    /\ pc' = "done"
    /\ UNCHANGED <<argv, resp, serial, stderr, error, exitCode, connects, ipc>>
    /\ UNCHANGED service

\* where each call of get_display_config continues
AfterConnect(at) ==
    CASE at = "status_connect" -> "status_get"
      [] at = "set_connect" -> "set_get_connect"
      [] at = "set_get_connect" -> "set_get"
      [] at = "set_call_connect" -> "set_call"

\* get_display_config(): dbus.SessionBus() and bus.get_object()
get_display_config ==
    /\ pc \in {"status_connect", "set_connect", "set_get_connect", "set_call_connect"}
    /\ connects' = connects + 1
    /\ IF reachable
       THEN pc' = AfterConnect(pc) /\ UNCHANGED <<error, exitCode>>
       ELSE Raise("ConnectionError")
    /\ UNCHANGED <<argv, args, resp, serial, stdout, stderr, ipc>>
    /\ UNCHANGED service

\* where the script goes once the property read has returned
AfterGet(at) == IF at = "status_get" THEN "status_print" ELSE "set_unpack"

\* debug_control.Get(INTERFACE, "Backlight"): the service answers with its
\* state; n is the number of elements of the structure it sends
get_backlight ==
    /\ pc \in {"status_get", "set_get"}
    /\ reachable
    /\ \E n \in {1, 2, 3} :
          resp' = [n |-> n, serial |-> svcSerial, backlights |-> svcBacklights]
    /\ ipc' = Append(ipc, Call("Get", U32(0, 0), <<>>, 0, TRUE))
    /\ pc' = AfterGet(pc)
    /\ UNCHANGED <<argv, args, serial, stdout, stderr, error, exitCode, connects>>
    /\ UNCHANGED service

\* the failing read as it would be if do_set swallowed the exception
get_backlight_fault_ignored ==
    /\ pc \in {"status_get", "set_get"}
    /\ ipc' = Append(ipc, Call("Get", U32(0, 0), <<>>, 0, FALSE))
    /\ IF pc = "set_get"
       THEN pc' = "set_call_connect" /\ UNCHANGED <<error, exitCode>>
       ELSE Raise(IF reachable THEN "RemoteError" ELSE "ConnectionError")
    /\ UNCHANGED <<argv, args, resp, serial, stdout, stderr, connects>>
    /\ UNCHANGED service

\* the read fails: the service is gone, or it answers with a fault
get_backlight_fault ==
    /\ pc \in {"status_get", "set_get"}
    /\ ipc' = Append(ipc, Call("Get", U32(0, 0), <<>>, 0, FALSE))
    /\ Raise(IF reachable THEN "RemoteError" ELSE "ConnectionError")
    /\ UNCHANGED <<argv, args, resp, serial, stdout, stderr, connects>>
    /\ UNCHANGED service

\* do_status after the read: unpack, print
status_print ==
    /\ pc = "status_print"
    /\ stdout' = stdout \o do_status(resp).lines
    /\ IF do_status(resp).err = "none"
       THEN pc' = "done" /\ UNCHANGED <<error, exitCode>>
       ELSE Raise(do_status(resp).err)
    /\ UNCHANGED <<argv, args, resp, serial, stderr, connects, ipc>>
    /\ UNCHANGED service

\* do_set:  [serial, _] = get_backlight()
set_unpack ==
    /\ pc = "set_unpack"
    /\ IF resp.n = 2
       THEN serial' = resp.serial /\ pc' = "set_call_connect" /\ UNCHANGED <<error, exitCode>>
       ELSE Raise("ValueError") /\ UNCHANGED serial
    /\ UNCHANGED <<argv, args, resp, stdout, stderr, connects, ipc>>
    /\ UNCHANGED service

\* the arguments as they would be if the client checked the value against
\* the service's range itself
SetArgs_Prevalidate(ser, kv) ==
    LET s == UInt32(ser)
        v == Int32(kv[2])
    IN [err |-> IF s.err # "none" THEN s.err
                ELSE IF v.err # "none" THEN v.err
                ELSE IF v.v < ServiceMin \/ v.v > ServiceMax THEN "ValueError"
                ELSE "none",
        serial |-> s.v, connector |-> kv[1], value |-> v.v]

\* the arguments of the method call as set_backlight builds them
SetArgs(ser, kv) ==
    LET s == UInt32(ser)
        v == Int32(kv[2])
    IN [err |-> IF s.err # "none" THEN s.err ELSE v.err,
        serial |-> s.v, connector |-> kv[1], value |-> v.v]

\* set_backlight: dbus.UInt32(serial) or dbus.Int32(value) raises
set_backlight_convert_error ==
    /\ pc = "set_call"
    /\ SetArgs(serial, args.set).err # "none"
    /\ Raise(SetArgs(serial, args.set).err)
    /\ UNCHANGED <<argv, args, resp, serial, stdout, stderr, connects, ipc>>
    /\ UNCHANGED service

\* set_backlight as it would be if the method call were sent twice
set_backlight_twice ==
    /\ pc = "set_call"
    /\ LET a == SetArgs(serial, args.set)
       IN /\ a.err = "none"
          /\ reachable
          /\ ServiceAccepts(svcSerial, svcBacklights, a.serial, a.connector, a.value)
          /\ ipc' = ipc \o <<Call("SetBacklight", a.serial, a.connector, a.value, TRUE),
                              Call("SetBacklight", a.serial, a.connector, a.value, TRUE)>>
          /\ svcBacklights' = ServiceApply(svcBacklights, a.connector, a.value)
    /\ pc' = "done"
    /\ UNCHANGED <<argv, args, resp, serial, stdout, stderr, error, exitCode, connects>>
    /\ UNCHANGED <<reachable, svcSerial, others, changedBetween, otherBacklights>>

\* set_backlight: the call is sent and the service takes it
set_backlight ==
    /\ pc = "set_call"
    /\ LET a == SetArgs(serial, args.set)
       IN /\ a.err = "none"
          /\ reachable
          /\ ServiceAccepts(svcSerial, svcBacklights, a.serial, a.connector, a.value)
          /\ ipc' = Append(ipc, Call("SetBacklight", a.serial, a.connector, a.value, TRUE))
          /\ svcBacklights' = ServiceApply(svcBacklights, a.connector, a.value)
    /\ pc' = "done"
    /\ UNCHANGED <<argv, args, resp, serial, stdout, stderr, error, exitCode, connects>>
    /\ UNCHANGED <<reachable, svcSerial, others, changedBetween, otherBacklights>>

\* set_backlight as it would be if a failed call made do_set start over
set_backlight_fault_retry ==
    /\ pc = "set_call"
    /\ LET a == SetArgs(serial, args.set)
       IN /\ a.err = "none"
          /\ ~(reachable /\ ServiceAccepts(svcSerial, svcBacklights, a.serial, a.connector, a.value))
          /\ ipc' = Append(ipc, Call("SetBacklight", a.serial, a.connector, a.value, FALSE))
    /\ IF reachable /\ Len(ipc) < 2
       THEN pc' = "set_get_connect" /\ UNCHANGED <<error, exitCode>>
       ELSE Raise(IF reachable THEN "RemoteError" ELSE "ConnectionError")
    /\ UNCHANGED <<argv, args, resp, serial, stdout, stderr, connects>>
    /\ UNCHANGED service

\* set_backlight: the call is sent and fails (service gone, or remote fault)
set_backlight_fault ==
    /\ pc = "set_call"
    /\ LET a == SetArgs(serial, args.set)
       IN /\ a.err = "none"
          /\ ~(reachable /\ ServiceAccepts(svcSerial, svcBacklights, a.serial, a.connector, a.value))
          /\ ipc' = Append(ipc, Call("SetBacklight", a.serial, a.connector, a.value, FALSE))
    /\ Raise(IF reachable THEN "RemoteError" ELSE "ConnectionError")
    /\ UNCHANGED <<argv, args, resp, serial, stdout, stderr, connects>>
    /\ UNCHANGED service

(* ---------------------------------------------------------------------- *)
(* The environment while the script runs                                  *)
(* ---------------------------------------------------------------------- *)
\* another client sets a brightness; the service advances its serial
OtherClientChange ==
    /\ pc \notin {"start", "done"}
    /\ reachable
    /\ others < MaxOther
    /\ \E i \in DOMAIN svcBacklights :
          svcBacklights' = [svcBacklights EXCEPT ![i] = SetProp(@, K_brightness, IntVal(OtherValue))]
    /\ otherBacklights' = svcBacklights'
    /\ svcSerial' = NextSerial(svcSerial)
    /\ others' = others + 1
    /\ changedBetween' = (changedBetween \/ pc \in {"set_unpack", "set_call_connect", "set_call"})
    /\ UNCHANGED <<argv, pc, reachable>>
    /\ UNCHANGED client

\* the service or the session bus goes away
ServiceDown ==
    /\ pc \notin {"start", "done"}
    /\ reachable
    /\ reachable' = FALSE
    /\ UNCHANGED <<argv, pc, svcSerial, svcBacklights, others, changedBetween, otherBacklights>>
    /\ UNCHANGED client

Next ==
    \/ ArgumentError
    \/ MainStatus
    \/ MainSet
    \/ MainUsage
    \/ get_display_config
    \/ get_backlight
    \/ get_backlight_fault
    \/ status_print
    \/ set_unpack
    \/ set_backlight_convert_error
    \/ set_backlight
    \/ set_backlight_fault
    \/ OtherClientChange
    \/ ServiceDown

Spec == Init /\ [][Next]_vars

(* ---------------------------------------------------------------------- *)
(* Properties                                                             *)
(* ---------------------------------------------------------------------- *)
Done == pc = "done"

Reads == Cardinality({i \in DOMAIN ipc : ipc[i].op = "Get"})
Writes == Cardinality({i \in DOMAIN ipc : ipc[i].op = "SetBacklight"})

\* the run went into do_set
RanSet == pc # "start" /\ error # "ArgumentError" /\ Dispatch(args) = "do_set"

\* the run went into do_status
RanStatus == pc # "start" /\ error # "ArgumentError" /\ Dispatch(args) = "do_status"

\* the command line is exactly  --set CONNECTOR VALUE
SetOnly == Len(argv) = 3 /\ argv[1] = OPT_SET

V75 == <<"7", "5">>
Vabc == <<"a", "b", "c">>
V200 == <<"2", "0", "0">>
VTooBig == <<"2", "1", "4", "7", "4", "8", "3", "6", "4", "8">>

\* C1: a successful run of --set CONNECTOR VALUE sent exactly one read of
\* Backlight and then exactly one SetBacklight, nothing else; the call carries
\* the serial the read returned, the connector of the command line and the
\* integer its VALUE denotes (serial 7, --set eDP-1 75: SetBacklight(7, "eDP-1", 75)).
C1_SetIsOneReadThenOneWrite ==
    (Done /\ exitCode = 0 /\ RanSet) =>
        /\ Len(ipc) = 2
        /\ ipc[1] = Call("Get", U32(0, 0), <<>>, 0, TRUE)
        /\ ipc[2].op = "SetBacklight"
        /\ ipc[2].serial = resp.serial
        /\ ipc[2].connector = args.set[1]
        /\ PyInt(args.set[2]).ok /\ PyInt(args.set[2]).fits
        /\ ipc[2].value = PyInt(args.set[2]).v
        /\ (argv = <<OPT_SET, EDP1, V75>> /\ resp.serial = U32(0, 7))
              => ipc[2] = Call("SetBacklight", U32(0, 7), EDP1, 75, TRUE)

C1_Witness ==
    /\ Done /\ exitCode = 0
    /\ argv = <<OPT_SET, EDP1, V75>>
    /\ resp.serial = U32(0, 7)
    /\ Writes = 1

\* C2 as stated: a --set CONNECTOR VALUE whose VALUE is no integer fails
\* before any IPC call: no read of Backlight and no SetBacklight.
C2_NoIpcBeforeBadValueFails ==
    (Done /\ SetOnly /\ ~PyInt(argv[3]).ok) => (exitCode # 0 /\ ipc = <<>>)

\* C2 amended: a --set CONNECTOR VALUE whose VALUE is no integer ends with a
\* non-zero exit status and never sends SetBacklight; the VALUE is converted
\* only after the read, so the ValueError of the conversion comes after
\* exactly one successful read of Backlight.
C2_BadValueFailsBeforeWrite ==
    (Done /\ SetOnly /\ ~PyInt(argv[3]).ok) =>
        /\ exitCode # 0
        /\ Writes = 0
        /\ error \in {"ArgumentError", "ConnectionError", "RemoteError", "ValueError"}
        /\ error = "ValueError" => ipc = <<Call("Get", U32(0, 0), <<>>, 0, TRUE)>>

C2_Witness ==
    /\ Done /\ argv = <<OPT_SET, EDP1, Vabc>>
    /\ error = "ValueError" /\ resp.n = 2
    /\ Reads = 1 /\ Writes = 0

\* C3: when another client changes the backlight state (the service's serial
\* advances) between do_set's read and its write, the SetBacklight is
\* rejected, the state stays as the other client left it, and the run ends
\* with a non-zero exit status after at most one read and one write.
C3_StaleWriteRejectedNoRetry ==
    (Done /\ RanSet /\ changedBetween) =>
        /\ exitCode # 0
        /\ \A i \in DOMAIN ipc : ipc[i].op = "SetBacklight" => ~ipc[i].ok
        /\ svcBacklights = otherBacklights
        /\ Reads = 1
        /\ Writes <= 1

C3_Witness ==
    /\ Done /\ RanSet /\ changedBetween /\ reachable
    /\ argv = <<OPT_SET, EDP1, V75>>
    /\ \E i \in DOMAIN svcBacklights : IsConnector(svcBacklights[i], EDP1)
    /\ Len(ipc) = 2 /\ ipc[2].op = "SetBacklight" /\ ~ipc[2].ok
    /\ ipc[2].serial # svcSerial
    /\ error = "RemoteError"

(* ---------------------------------------------------------------------- *)
(* Reading the printed status back                                        *)
(* ---------------------------------------------------------------------- *)
IsPrefix(p, l) == Len(p) <= Len(l) /\ SubSeq(l, 1, Len(p)) = p
IsSuffix(p, l) == Len(p) <= Len(l) /\ SubSeq(l, Len(l) - Len(p) + 1, Len(l)) = p

IsHeader(l) == IsPrefix(ConnectorPrefix, l) /\ IsSuffix(ConnectorSuffix, l)
HeaderName(l) == SubSeq(l, Len(ConnectorPrefix) + 1, Len(l) - Len(ConnectorSuffix))

\* the unsigned 32-bit number a string of decimal digits denotes
RECURSIVE ReadU32(_, _, _)
ReadU32(ds, i, u) ==
    IF i > Len(ds) THEN [ok |-> ds # <<>>, v |-> u]
    ELSE IF ~IsDigit(ds[i]) THEN [ok |-> FALSE, v |-> U32(0, 0)]
    ELSE LET l == u.lo * 10 + DigitVal(ds[i])
         IN ReadU32(ds, i + 1, U32(u.hi * 10 + l \div Half, l % Half))

SerialOfLine(l) == ReadU32(SubSeq(l, Len(SerialPrefix) + 1, Len(l)), 1, U32(0, 0))

\* the lines up to the next block header
RECURSIVE LeadingProps(_)
LeadingProps(ls) == IF ls = <<>> \/ IsHeader(ls[1]) THEN 0 ELSE 1 + LeadingProps(Tail(ls))

\* the printed lines after the serial line, cut into blocks
RECURSIVE Blocks(_)
Blocks(ls) ==
    IF ls = <<>> THEN <<>>
    ELSE LET n == LeadingProps(Tail(ls))
         IN <<[header |-> ls[1], props |-> SubSeq(ls, 2, n + 1)]>> \o Blocks(SubSeq(ls, n + 2, Len(ls)))

\* a property line read back: indentation, name, ": ", text
ReadProp(l) ==
    LET body == SubSeq(l, Len(Indent) + 1, Len(l))
        cuts == {k \in 1..(Len(body) - 1) : SubSeq(body, k, k + 1) = Sep}
    IN IF ~IsPrefix(Indent, l) \/ cuts = {} THEN [ok |-> FALSE, key |-> <<>>, text |-> <<>>]
       ELSE LET k == CHOOSE c \in cuts : \A d \in cuts : c <= d
            IN [ok |-> TRUE, key |-> SubSeq(body, 1, k - 1), text |-> SubSeq(body, k + 2, Len(body))]

NotConnectorKey(p) == p.key # K_connector

\* what the block of a property map has to show
ExpectedProps(m) ==
    LET sel == SelectSeq(m, NotConnectorKey)
    IN [j \in 1..Len(sel) |-> [ok |-> TRUE, key |-> sel[j].key, text |-> FormatValue(sel[j].val)]]

ValidResp(r) == r.n = 2 /\ \A i \in DOMAIN r.backlights : HasKey(r.backlights[i], K_connector)

ExampleBacklights ==
    << <<Pair(K_connector, StrVal(EDP1)), Pair(K_brightness, IntVal(50)), Pair(K_max, IntVal(100))>> >>

ExampleOutput ==
    << <<"S", "e", "r", "i", "a", "l", ":", " ", "7">>,
       <<"C", "o", "n", "n", "e", "c", "t", "o", "r", " ", "'", "e", "D", "P", "-", "1", "'", ":">>,
       <<" ", " ", "b", "r", "i", "g", "h", "t", "n", "e", "s", "s", ":", " ", "5", "0">>,
       <<" ", " ", "m", "a", "x", ":", " ", "1", "0", "0">> >>

\* C4: for a valid (serial, connectors) response --status prints first a serial
\* line showing the response's serial and then one block per connector entry,
\* in the order of the response: as many block headers as entries, header i
\* naming the connector of entry i.
C4_StatusPrintsSerialAndBlocks ==
    (Done /\ RanStatus /\ ValidResp(resp)) =>
        /\ exitCode = 0
        /\ stdout # <<>>
        /\ IsPrefix(SerialPrefix, stdout[1])
        /\ SerialOfLine(stdout[1]) = [ok |-> TRUE, v |-> resp.serial]
        /\ LET hs == SelectSeq(Tail(stdout), IsHeader)
           IN /\ Len(hs) = Len(resp.backlights)
              /\ \A i \in DOMAIN hs :
                    HeaderName(hs[i]) = FormatValue(Lookup(resp.backlights[i], K_connector))
        /\ Len(stdout) > 1 => IsHeader(stdout[2])
        /\ (resp.serial = U32(0, 7) /\ resp.backlights = ExampleBacklights) => stdout = ExampleOutput

C4_Witness ==
    /\ Done /\ RanStatus /\ ValidResp(resp)
    /\ Len(resp.backlights) = 2
    /\ resp.serial = UInt32Max
    /\ Len(SelectSeq(stdout, IsHeader)) = 2

\* C5: the property lines of a printed block are the key/value pairs of its
\* property map without the "connector" key, in the map's order; "connector"
\* is never printed as a property line.
C5_BlockShowsPropsWithoutConnector ==
    (Done /\ RanStatus /\ stdout # <<>>) =>
        LET bs == Blocks(Tail(stdout))
        IN /\ Len(bs) <= Len(resp.backlights)
           /\ \A i \in DOMAIN bs :
                 /\ IsHeader(bs[i].header)
                 /\ [j \in 1..Len(bs[i].props) |-> ReadProp(bs[i].props[j])] = ExpectedProps(resp.backlights[i])
                 /\ \A j \in DOMAIN bs[i].props : ReadProp(bs[i].props[j]).key # K_connector

C5_Witness ==
    /\ Done /\ RanStatus /\ exitCode = 0
    /\ Len(resp.backlights) = 2
    /\ resp.backlights[1][2].key = K_connector
    /\ Len(Blocks(Tail(stdout))) = 2
    /\ Len(Blocks(Tail(stdout))[1].props) = 2

\* C6: a command line with neither --status nor --set prints the usage
\* text, ends with exit status 0 and makes no IPC call: no bus connection, no
\* read, no write.
C6_NoActionPrintsUsage ==
    (Done /\ \A i \in DOMAIN argv : argv[i] \notin {OPT_STATUS, OPT_SET}) =>
        /\ stdout = <<UsageText>>
        /\ stderr = <<>>
        /\ exitCode = 0 /\ error = "none"
        /\ connects = 0
        /\ ipc = <<>>

C6_Witness == Done /\ argv = <<>> /\ stdout = <<UsageText>> /\ exitCode = 0

\* C7: with both --status and --set CONNECTOR VALUE on the command line the
\* run is a --status run: one connection, at most one read of Backlight, the
\* status printed from its response, and never a SetBacklight nor a conversion
\* of VALUE, whatever CONNECTOR and VALUE are.
C7_StatusTakesPrecedence ==
    (pc # "start" /\ error # "ArgumentError" /\ args.status /\ args.set # <<>>) =>
        /\ Writes = 0
        /\ Len(ipc) <= 1
        /\ connects <= 1
        /\ pc \in {"status_connect", "status_get", "status_print", "done"}
        /\ error \notin {"OverflowError"}
        /\ (Done /\ exitCode = 0) =>
              /\ ipc = <<Call("Get", U32(0, 0), <<>>, 0, TRUE)>>
              /\ stdout # <<>>
              /\ SerialOfLine(stdout[1]) = [ok |-> TRUE, v |-> resp.serial]
              /\ Len(SelectSeq(stdout, IsHeader)) = Len(resp.backlights)

C7_Witness ==
    /\ Done /\ exitCode = 0
    /\ args.status /\ args.set = <<DP9, Vabc>>
    /\ Len(stdout) > 1

\* C8 as stated: for an integer VALUE, also one outside the signed 32-bit
\* range, and any CONNECTOR, a run of --set that got its read (and did not
\* lose the service) sends SetBacklight with that connector, and ends without
\* error or with the service's fault, never with an error of the client's own.
C8_NoClientSideCheck ==
    (Done /\ RanSet /\ PyInt(args.set[2]).ok /\ resp.n = 2 /\ error # "ConnectionError") =>
        /\ Writes = 1
        /\ ipc[Len(ipc)].connector = args.set[1]
        /\ error \in {"none", "RemoteError"}

\* C8 amended: for an integer VALUE inside the signed 32-bit range and any
\* CONNECTOR, a run of --set that got its read and did not lose the service
\* sends SetBacklight with the read's serial, that connector and that value,
\* and a failure is the service's fault; a VALUE outside the signed 32-bit
\* range is refused by the client's own Int32 conversion (OverflowError) after
\* the read, and no SetBacklight is sent.
C8_NoClientSideCheckWithinInt32 ==
    (Done /\ RanSet /\ PyInt(args.set[2]).ok /\ resp.n = 2 /\ error # "ConnectionError") =>
        IF PyInt(args.set[2]).fits
        THEN /\ Len(ipc) = 2
             /\ ipc[2].op = "SetBacklight"
             /\ ipc[2].serial = resp.serial
             /\ ipc[2].connector = args.set[1]
             /\ ipc[2].value = PyInt(args.set[2]).v
             /\ error \in {"none", "RemoteError"}
             /\ error = "RemoteError" <=> ~ipc[2].ok
        ELSE /\ error = "OverflowError"
             /\ Writes = 0
             /\ Reads = 1

C8_Witness ==
    /\ Done /\ reachable /\ ~changedBetween
    /\ argv = <<OPT_SET, DP9, V200>>
    /\ Len(ipc) = 2 /\ ipc[2] = Call("SetBacklight", resp.serial, DP9, 200, FALSE)
    /\ error = "RemoteError"

\* the first entry of a response without the "connector" key
FirstBad(backlights) ==
    CHOOSE k \in DOMAIN backlights :
        /\ ~HasKey(backlights[k], K_connector)
        /\ \A j \in 1..(k - 1) : HasKey(backlights[j], K_connector)

\* C9 as stated: when --status fails (fault on the read, a response that is
\* no pair, an entry without "connector"), nothing of the status was printed.
C9_FailedStatusPrintsNothing ==
    (Done /\ RanStatus /\ exitCode # 0) => stdout = <<>>

\* C9 amended: when --status fails on the read or on a response that is no
\* pair, nothing was printed; when it fails on an entry without "connector",
\* the serial line and the complete blocks of the entries before that entry
\* were printed, and nothing of that entry or of a later one.
C9_FailedStatusPrintsPrefix ==
    (Done /\ RanStatus /\ exitCode # 0) =>
        IF error = "KeyError"
        THEN /\ resp.n = 2
             /\ \E k \in DOMAIN resp.backlights : ~HasKey(resp.backlights[k], K_connector)
             /\ stdout # <<>>
             /\ SerialOfLine(stdout[1]) = [ok |-> TRUE, v |-> resp.serial]
             /\ LET bs == Blocks(Tail(stdout))
                IN /\ Len(bs) = FirstBad(resp.backlights) - 1
                   /\ \A i \in DOMAIN bs :
                         /\ IsHeader(bs[i].header)
                         /\ HeaderName(bs[i].header) = FormatValue(Lookup(resp.backlights[i], K_connector))
                         /\ Len(bs[i].props) = Len(SelectSeq(resp.backlights[i], NotConnectorKey))
        ELSE /\ stdout = <<>>
             /\ error \in {"ConnectionError", "RemoteError", "ValueError"}

C9_Witness ==
    /\ Done /\ RanStatus /\ error = "KeyError"
    /\ Len(resp.backlights) = 3
    /\ Len(stdout) = 3

\* C10: in do_set the two round trips are sequential: a SetBacklight is sent
\* only as the second call, after a read of Backlight that succeeded; the read
\* is sent at most once; and when the read failed or was never sent, no
\* SetBacklight is sent and the exit status is non-zero.
C10_WriteOnlyAfterSuccessfulRead ==
    /\ \A i \in DOMAIN ipc :
          ipc[i].op = "SetBacklight" => (i = 2 /\ ipc[1].op = "Get" /\ ipc[1].ok)
    /\ Reads <= 1
    /\ (Done /\ RanSet /\ (ipc = <<>> \/ ~ipc[1].ok)) =>
          (Writes = 0 /\ Len(ipc) <= 1 /\ exitCode # 0)

C10_Witness ==
    /\ Done /\ RanSet /\ reachable
    /\ ipc = <<Call("Get", U32(0, 0), <<>>, 0, FALSE)>>
    /\ error = "RemoteError"

====
